---- MODULE Spec2Model ----
(***************************************************************************)
(* Model of src/src/App.tsx: the progress dashboard.  App filters the      *)
(* fetched exercises and students (useMemo), every mounted                 *)
(* StudentProgressRow resolves a student's latest statuses and upserts a   *)
(* row into tableDataRef through handleRowComputed, and downloadCSV        *)
(* serialises tableDataRef.current.                                        *)
(*                                                                         *)
(* Encodings.  A value that may be null/undefined is a sequence of length  *)
(* 0 (null) or 1 (the value).  A string produced by join() is the sequence *)
(* of its pieces: every non-empty field is one piece, every separator one  *)
(* piece, and the empty string has none.                                   *)
(***************************************************************************)
EXTENDS Integers, Sequences, FiniteSets, TLC

VARIABLES
    EXERCISES,                \* @config allow-list of exercise names
    STUDENTS,                 \* @config allow-list of usernames
    allExercises,             \* useGetExercisesQuery().data
    isExercisesLoading,       \* useGetExercisesQuery().isLoading
    allStudents,              \* useGetStudentsQuery().data
    isStudentsLoading,        \* useGetStudentsQuery().isLoading
    studentProgress,          \* per student id: useGetStudentExercisesQuery().data
    isStudentProgressLoading, \* per student id: its isLoading
    filteredExercises,        \* memoised value of App's first useMemo
    filteredStudents,         \* memoised value of App's second useMemo
    tableData,                \* tableDataRef.current
    tableBefore,              \* history: tableDataRef.current before the latest step
    rowsComputed,             \* history: the rows the latest step passed to onRowComputed
    mounted,                  \* the students whose StudentProgressRow is mounted
    tbody,                    \* the rendered table body
    csvContent,               \* the document the latest step handed to the browser, if any
    progressQueries,          \* student ids whose progress query has been issued
    lastEvent,                \* history: the event the latest step handled
    presented,                \* the statuses given to getEmoji on its own, with its results
    fetches                   \* number of query results delivered so far

vars == << EXERCISES, STUDENTS, allExercises, isExercisesLoading, allStudents,
           isStudentsLoading, studentProgress, isStudentProgressLoading,
           filteredExercises, filteredStudents, tableData, tableBefore,
           rowsComputed, mounted, tbody, csvContent, progressQueries, lastEvent,
           presented, fetches >>

----------------------------------------------------------------------------
(* Bounds of the model *)

MaxFetches == 4
MaxPresented == 2

----------------------------------------------------------------------------
(* Value universes *)

ExerciseNames == {"arrays", "loops"}
Usernames == {"ann", "bob"}
Statuses == {"SUCCESSFUL", "UNSUCCESSFUL"}

Null == << >>
Some(x) == << x >>
Get(o) == o[1]

Range(s) == { s[i] : i \in 1..Len(s) }

SeqsUpTo(S, n) == UNION { [1..k -> S] : k \in 0..n }

NoRepeat(s) == \A i, j \in 1..Len(s) : i # j => s[i] # s[j]

\* Exercise: { exercise_name }
Exercise == [exercise_name : ExerciseNames]

\* Student: { id, username }
Student == { [id |-> 1, username |-> "ann"], [id |-> 2, username |-> "bob"] }
StudentIds == { student.id : student \in Student }

\* StudentExercise: a submission record with its status under exerciseProgress
StudentExercise == [exerciseProgress : [status : Statuses]]

\* Fetched exercise lists: names are unique within the fetched set
ExerciseLists ==
    { l \in SeqsUpTo(Exercise, Cardinality(Exercise)) : NoRepeat(l) }

\* Fetched student lists: ids are unique within the fetched set
StudentLists ==
    { l \in SeqsUpTo(Student, Cardinality(Student)) :
        \A i, j \in 1..Len(l) : i # j => l[i].id # l[j].id }

Record(status) == [exerciseProgress |-> [status |-> status]]

\* The submission histories of one exercise: one failed attempt, or a failed
\* attempt followed by a successful one (last element = most recent)
SubmissionSeqs ==
    { << Record("UNSUCCESSFUL") >>,
      << Record("UNSUCCESSFUL"), Record("SUCCESSFUL") >> }

\* A student's submission mapping: exercise name -> non-empty ordered records
ProgressMaps ==
    UNION { [names -> SubmissionSeqs] : names \in SUBSET ExerciseNames }

\* The configured allow-lists: empty, one name, every name
ExerciseAllowLists == { << >>, << "loops" >>, << "loops", "arrays" >> }
StudentAllowLists == { << >>, << "ann" >>, << "bob", "ann" >> }

----------------------------------------------------------------------------
(* Roster Filter: App's two useMemo derivations *)

\* String.prototype.localeCompare on the exercise names of the universe
localeRank == [n \in ExerciseNames |-> IF n = "arrays" THEN 1 ELSE 2]

localeCompare(a, b) ==
    IF a = b THEN 0 ELSE IF localeRank[a] < localeRank[b] THEN -1 ELSE 1

RECURSIVE insertSorted(_, _)
insertSorted(sorted, e) ==
    IF sorted = << >> THEN << e >>
    ELSE IF localeCompare(e.exercise_name, sorted[Len(sorted)].exercise_name) >= 0
         THEN Append(sorted, e)
         ELSE Append(insertSorted(SubSeq(sorted, 1, Len(sorted) - 1), e),
                     sorted[Len(sorted)])

RECURSIVE sortFrom(_, _, _)
sortFrom(arr, i, acc) ==
    IF i > Len(arr) THEN acc ELSE sortFrom(arr, i + 1, insertSorted(acc, arr[i]))

\* mutant of sortByName: the sort is dropped
sortByNameDropped(arr) == arr

\* Array.prototype.sort with the comparator of lines 26-28 (a stable sort)
sortByName(arr) == sortFrom(arr, 1, << >>)

\* the array that line 26 sorts: allExercises itself, or a fresh filtered copy
exercisesToSort(all, allowList) ==
    IF Len(allowList) = 0
    THEN all
    ELSE SelectSeq(all, LAMBDA exercise : exercise.exercise_name \in Range(allowList))

\* mutant of computeFilteredExercises: without fetched data the allow-list
\* itself is shown as the exercise list
computeFilteredExercisesFallback(data, loading, allowList) ==
    IF data = Null \/ loading
    THEN sortByName([i \in 1..Len(allowList) |-> [exercise_name |-> allowList[i]]])
    ELSE sortByName(exercisesToSort(Get(data), allowList))

\* value of the first useMemo
computeFilteredExercises(data, loading, allowList) ==
    IF data = Null \/ loading THEN << >>
    ELSE sortByName(exercisesToSort(Get(data), allowList))

\* allExercises after the first useMemo ran: sort() works in place, and with an
\* empty allow-list the array it sorts is allExercises itself
allExercisesAfterMemo(data, loading, allowList) ==
    IF data = Null \/ loading THEN data
    ELSE IF Len(allowList) = 0 THEN Some(sortByName(Get(data)))
    ELSE data

\* value of the second useMemo
computeFilteredStudents(data, loading, allowList) ==
    IF data = Null \/ loading THEN << >>
    ELSE SelectSeq(Get(data), LAMBDA student : student.username \in Range(allowList))

----------------------------------------------------------------------------
(* Progress Resolver, Status Presenter and the row of one student *)

\* mutant of atLast: the first element is taken as the latest
atFirst(exercises) ==
    IF Len(exercises) = 0 THEN Null ELSE Some(exercises[1])

\* Array.prototype.at(-1): undefined on an empty array
atLast(exercises) ==
    IF Len(exercises) = 0 THEN Null ELSE Some(exercises[Len(exercises)])

\* value of StudentProgressRow's first useMemo: exercise name -> latest record
latestStatus(progress, loading) ==
    IF progress = Null \/ loading THEN [n \in {} |-> Null]
    ELSE [exerciseName \in DOMAIN Get(progress) |-> atLast(Get(progress)[exerciseName])]

\* mutant of rawStatus: an exercise without an entry counts as a failed attempt
rawStatusAbsentIsFailure(latest, name) ==
    IF name \notin DOMAIN latest THEN "UNSUCCESSFUL"
    ELSE IF latest[name] = Null THEN ""
    ELSE Get(latest[name]).exerciseProgress.status

\* mutant of rawStatus: an entry without a record counts as an error status
rawStatusMissingIsError(latest, name) ==
    IF name \notin DOMAIN latest THEN ""
    ELSE IF latest[name] = Null THEN "ERROR"
    ELSE Get(latest[name]).exerciseProgress.status

\* latestStatus.get(name)?.exerciseProgress?.status ?? ""
rawStatus(latest, name) ==
    IF name \notin DOMAIN latest THEN ""
    ELSE IF latest[name] = Null THEN ""
    ELSE Get(latest[name]).exerciseProgress.status

\* mutant of getEmoji: only the enumerated codes are known, not the labels
getEmojiCodesOnly(status) ==
    CASE status = Some("SUCCESSFUL") -> "check"
      [] status = Some("UNSUCCESSFUL") -> "cross"
      [] status = Some("ERROR") -> "warning"
      [] OTHER -> ""

\* getEmoji(status?: string | null): the check mark, the cross, the warning
\* sign or the empty string
getEmoji(status) ==
    CASE status \in { Some("SUCCESSFUL"), Some("Completed") } -> "check"
      [] status \in { Some("UNSUCCESSFUL"), Some("Incomplete") } -> "cross"
      [] status \in { Some("ERROR"), Some("Error") } -> "warning"
      [] OTHER -> ""

\* the statuses record built by the forEach of lines 177-181
\* mutant of computeStatuses: only the attempted exercises get an entry
computeStatusesAttemptedOnly(exercises, latest) ==
    [name \in { ex.exercise_name : ex \in Range(exercises) } \cap DOMAIN latest
        |-> rawStatus(latest, name)]

computeStatuses(exercises, latest) ==
    [name \in { ex.exercise_name : ex \in Range(exercises) } |-> rawStatus(latest, name)]

computeRow(student, exercises, latest) ==
    [username |-> student.username, statuses |-> computeStatuses(exercises, latest)]

----------------------------------------------------------------------------
(* Row Aggregator *)

\* mutant of handleRowComputed: the row is appended without removing the old one
handleRowComputedAppend(table, row) == table \o << row >>

\* mutant of handleRowComputed: the rows before the replaced one are lost
handleRowComputedTruncate(table, row) ==
    LET at == { i \in 1..Len(table) : table[i].username = row.username }
    IN  IF at = {} THEN table \o << row >>
        ELSE LET i == CHOOSE k \in at : TRUE
             IN  SubSeq(table, i + 1, Len(table)) \o << row >>

\* mutant of handleRowComputed: the filter keeps the rows of the same username
handleRowComputedKeepSame(table, row) ==
    SelectSeq(table, LAMBDA r : r.username = row.username) \o << row >>

handleRowComputed(table, row) ==
    SelectSeq(table, LAMBDA r : r.username # row.username) \o << row >>

----------------------------------------------------------------------------
(* Snapshot Exporter *)

\* a field as a string: the empty string has no piece, any other is one piece
Str(field) == IF field = "" THEN << >> ELSE << field >>

\* Array.prototype.join: the pieces of the parts with sep between the parts
RECURSIVE join(_, _)
join(parts, sep) ==
    IF Len(parts) = 0 THEN << >>
    ELSE IF Len(parts) = 1 THEN parts[1]
    ELSE parts[1] \o << sep >> \o join(Tail(parts), sep)

csvHeaders(exercises) ==
    << "Github Username" >> \o [i \in 1..Len(exercises) |-> exercises[i].exercise_name]

\* mutant of csvRow: the statuses are taken from the row's own keys, so a column
\* the row has no status for is skipped
csvRowOwnKeys(row, exercises) ==
    << row.username >> \o
    LET present == SelectSeq(exercises,
                             LAMBDA ex : ex.exercise_name \in DOMAIN row.statuses)
    IN  [i \in 1..Len(present) |-> row.statuses[present[i].exercise_name]]

csvRow(row, exercises) ==
    << row.username >> \o
    [i \in 1..Len(exercises) |->
        IF exercises[i].exercise_name \in DOMAIN row.statuses
        THEN row.statuses[exercises[i].exercise_name]
        ELSE ""]

joinFields(fields) == join([i \in 1..Len(fields) |-> Str(fields[i])], ",")

buildCsvContent(table, exercises) ==
    joinFields(csvHeaders(exercises)) \o << "\n" >> \o
    join([i \in 1..Len(table) |-> joinFields(csvRow(table[i], exercises))], "\n")

----------------------------------------------------------------------------
(* The event a step handles: a query result (of a student id, or 0), or a    *)
(* click of the button                                                       *)

Event(kind, id) == [kind |-> kind, id |-> id]

----------------------------------------------------------------------------
(* Initial state: App has rendered once, the two list queries are in flight  *)
(* and nothing is mounted or stored                                          *)

Init ==
    /\ EXERCISES \in ExerciseAllowLists
    /\ STUDENTS \in StudentAllowLists
    /\ allExercises = Null
    /\ isExercisesLoading = TRUE
    /\ allStudents = Null
    /\ isStudentsLoading = TRUE
    /\ studentProgress = [id \in StudentIds |-> Null]
    /\ isStudentProgressLoading = [id \in StudentIds |-> TRUE]
    /\ filteredExercises = << >>
    /\ filteredStudents = << >>
    /\ tableData = << >>
    /\ tableBefore = << >>
    /\ rowsComputed = << >>
    /\ mounted = << >>
    /\ tbody = << >>
    /\ csvContent = Null
    /\ progressQueries = {}
    /\ lastEvent = Event("mount", 0)
    /\ presented = << >>
    /\ fetches = 0

----------------------------------------------------------------------------
(* One render pass of App and of every StudentProgressRow it mounts.  A     *)
(* changed hook result re-renders the components that use the hook.         *)

isMounted(student) == \E m \in Range(mounted) : m.id = student.id

\* whether a dependency of the row's useMemo (lines 184-190) changed since the
\* component's previous render; a component's first render always runs it
\* mutant of rowDepsChanged: filteredExercises is not among the dependencies
rowDepsChangedWithoutExercises(student, exercisesChanged, changedIds) ==
    \/ ~isMounted(student)
    \/ student.id \in changedIds
    \/ \E m \in Range(mounted) : m.id = student.id /\ m.username # student.username

rowDepsChanged(student, exercisesChanged, changedIds) ==
    \/ ~isMounted(student)
    \/ exercisesChanged
    \/ student.id \in changedIds
    \/ \E m \in Range(mounted) : m.id = student.id /\ m.username # student.username

\* mutant of computedRows: the row is computed while the fetch is still loading
RECURSIVE computedRowsIgnoreLoading(_, _, _, _, _, _)
computedRowsIgnoreLoading(rows, i, exercises, progress, loading, changed) ==
    IF i > Len(rows) THEN << >>
    ELSE LET student == rows[i]
             runs == rowDepsChanged(student, changed.exercises, changed.progress)
             latest == latestStatus(progress[student.id], loading[student.id])
             row == computeRow(student, exercises, latest)
         IN  (IF runs THEN << row >> ELSE << >>)
             \o computedRowsIgnoreLoading(rows, i + 1, exercises, progress, loading, changed)

\* the useMemo of lines 175-190 of every row, in the order the rows render:
\* the rows passed to onRowComputed
RECURSIVE computedRows(_, _, _, _, _, _)
computedRows(rows, i, exercises, progress, loading, changed) ==
    IF i > Len(rows) THEN << >>
    ELSE LET student == rows[i]
             runs == /\ rowDepsChanged(student, changed.exercises, changed.progress)
                     /\ ~loading[student.id]
             latest == latestStatus(progress[student.id], loading[student.id])
             row == computeRow(student, exercises, latest)
         IN  (IF runs THEN << row >> ELSE << >>)
             \o computedRows(rows, i + 1, exercises, progress, loading, changed)

\* tableDataRef.current after onRowComputed was called with each row in turn
RECURSIVE applyRows(_, _)
applyRows(table, computed) ==
    IF computed = << >> THEN table
    ELSE applyRows(handleRowComputed(table, Head(computed)), Tail(computed))

\* the <tr> of one StudentProgressRow (lines 192-206)
renderTr(student, exercises, latest) ==
    [username |-> student.username,
     cells |-> [j \in 1..Len(exercises) |->
                  getEmoji(Some(rawStatus(latest, exercises[j].exercise_name)))]]

\* the rows App mounts (lines 110-121)
rowsToMount(students, exercisesData, studentsData) ==
    IF studentsData # Null /\ exercisesData # Null THEN students ELSE << >>

\* The render that follows a change of hook results.  q holds the hook results
\* of this render, changed says which of them differ from the previous render.
Render(q, changed) ==
    LET newExercises ==
            IF changed.exercises
            THEN computeFilteredExercises(q.allExercises, q.isExercisesLoading, EXERCISES)
            ELSE filteredExercises
        newAllExercises ==
            IF changed.exercises
            THEN allExercisesAfterMemo(q.allExercises, q.isExercisesLoading, EXERCISES)
            ELSE q.allExercises
        newStudents ==
            IF changed.students
            THEN computeFilteredStudents(q.allStudents, q.isStudentsLoading, STUDENTS)
            ELSE filteredStudents
        rows == rowsToMount(newStudents, newAllExercises, q.allStudents)
        computed == computedRows(rows, 1, newExercises, q.studentProgress,
                                 q.isStudentProgressLoading, changed)
    IN  /\ allExercises' = newAllExercises
        /\ isExercisesLoading' = q.isExercisesLoading
        /\ allStudents' = q.allStudents
        /\ isStudentsLoading' = q.isStudentsLoading
        /\ studentProgress' = q.studentProgress
        /\ isStudentProgressLoading' = q.isStudentProgressLoading
        /\ filteredExercises' = newExercises
        /\ filteredStudents' = newStudents
        /\ rowsComputed' = computed
        /\ tableBefore' = tableData
        /\ tableData' = applyRows(tableData, computed)
        /\ tbody' = [i \in 1..Len(rows) |->
                        renderTr(rows[i], newExercises,
                                 latestStatus(q.studentProgress[rows[i].id],
                                              q.isStudentProgressLoading[rows[i].id]))]
        /\ mounted' = rows
        /\ progressQueries' = progressQueries \cup { rows[i].id : i \in 1..Len(rows) }
        /\ csvContent' = Null
        /\ UNCHANGED << EXERCISES, STUDENTS, presented >>

\* the hook results as they are now
Hooks ==
    [allExercises |-> allExercises, isExercisesLoading |-> isExercisesLoading,
     allStudents |-> allStudents, isStudentsLoading |-> isStudentsLoading,
     studentProgress |-> studentProgress,
     isStudentProgressLoading |-> isStudentProgressLoading]

Unchanged == [exercises |-> FALSE, students |-> FALSE, progress |-> {}]

----------------------------------------------------------------------------
(* The queries: each delivers its result at any time, in any order, and the  *)
(* components that use it render again                                       *)

ExercisesQuerySuccess(list) ==
    /\ fetches < MaxFetches
    /\ allExercises # Some(list)
    /\ fetches' = fetches + 1
    /\ lastEvent' = Event("exercises", 0)
    /\ Render([Hooks EXCEPT !.allExercises = Some(list), !.isExercisesLoading = FALSE],
              [Unchanged EXCEPT !.exercises = TRUE])

ExercisesQueryError ==
    /\ isExercisesLoading
    /\ UNCHANGED fetches
    /\ lastEvent' = Event("exercisesError", 0)
    /\ Render([Hooks EXCEPT !.isExercisesLoading = FALSE],
              [Unchanged EXCEPT !.exercises = TRUE])

StudentsQuerySuccess(list) ==
    /\ fetches < MaxFetches
    /\ allStudents # Some(list)
    /\ fetches' = fetches + 1
    /\ lastEvent' = Event("students", 0)
    /\ Render([Hooks EXCEPT !.allStudents = Some(list), !.isStudentsLoading = FALSE],
              [Unchanged EXCEPT !.students = TRUE])

StudentsQueryError ==
    /\ isStudentsLoading
    /\ UNCHANGED fetches
    /\ lastEvent' = Event("studentsError", 0)
    /\ Render([Hooks EXCEPT !.isStudentsLoading = FALSE],
              [Unchanged EXCEPT !.students = TRUE])

StudentExercisesQuerySuccess(id, progress) ==
    /\ fetches < MaxFetches
    /\ id \in progressQueries
    /\ studentProgress[id] # Some(progress)
    /\ fetches' = fetches + 1
    /\ lastEvent' = Event("progress", id)
    /\ Render([Hooks EXCEPT !.studentProgress[id] = Some(progress),
                            !.isStudentProgressLoading[id] = FALSE],
              [Unchanged EXCEPT !.progress = {id}])

StudentExercisesQueryError(id) ==
    /\ id \in progressQueries
    /\ isStudentProgressLoading[id]
    /\ UNCHANGED fetches
    /\ lastEvent' = Event("progressError", id)
    /\ Render([Hooks EXCEPT !.isStudentProgressLoading[id] = FALSE],
              [Unchanged EXCEPT !.progress = {id}])

----------------------------------------------------------------------------
(* The "Download as .csv" button *)

\* mutant of exportedDocument: the guard on an empty collection is dropped
exportedDocumentUnguarded(table, exercises) ==
    Some(buildCsvContent(table, exercises))

\* the document downloadCSV hands to the browser, if any (lines 59-73)
exportedDocument(table, exercises) ==
    IF Len(table) = 0 THEN Null ELSE Some(buildCsvContent(table, exercises))

downloadCSV ==
    /\ csvContent' = exportedDocument(tableData, filteredExercises)
    /\ rowsComputed' = << >>
    /\ tableBefore' = tableData
    /\ lastEvent' = Event("click", 0)
    /\ UNCHANGED << EXERCISES, STUDENTS, allExercises, isExercisesLoading,
                    allStudents, isStudentsLoading, studentProgress,
                    isStudentProgressLoading, filteredExercises, filteredStudents,
                    tableData, mounted, tbody, progressQueries, presented, fetches >>

----------------------------------------------------------------------------

Next ==
    \/ \E list \in ExerciseLists : ExercisesQuerySuccess(list)
    \/ ExercisesQueryError
    \/ \E list \in StudentLists : StudentsQuerySuccess(list)
    \/ StudentsQueryError
    \/ \E id \in StudentIds, progress \in ProgressMaps :
           StudentExercisesQuerySuccess(id, progress)
    \/ \E id \in StudentIds : StudentExercisesQueryError(id)
    \/ downloadCSV

Spec == Init /\ [][Next]_vars

----------------------------------------------------------------------------
(* The dashboard fed submission mappings in which an exercise name may map   *)
(* to an empty sequence, which the data contract excludes                    *)

SubmissionSeqsOrEmpty ==
    { << >>, << Record("UNSUCCESSFUL"), Record("SUCCESSFUL") >> }

ProgressMapsOrEmpty ==
    UNION { [names -> SubmissionSeqsOrEmpty] : names \in SUBSET ExerciseNames }

EmptyHistoryNext ==
    \/ \E list \in ExerciseLists : ExercisesQuerySuccess(list)
    \/ ExercisesQueryError
    \/ \E list \in StudentLists : StudentsQuerySuccess(list)
    \/ StudentsQueryError
    \/ \E id \in StudentIds, progress \in ProgressMapsOrEmpty :
           StudentExercisesQuerySuccess(id, progress)
    \/ \E id \in StudentIds : StudentExercisesQueryError(id)
    \/ downloadCSV

EmptyHistorySpec == Init /\ [][EmptyHistoryNext]_vars

----------------------------------------------------------------------------
(* The Status Presenter on its own: getEmoji applied to any status, known,   *)
(* unknown, empty or absent                                                  *)

StatusInputs ==
    { Null } \cup
    { Some(status) : status \in { "SUCCESSFUL", "Completed", "UNSUCCESSFUL", "Incomplete",
                                  "ERROR", "Error", "", "WHATEVER", "successful" } }

Present(status) ==
    /\ Len(presented) < MaxPresented
    /\ presented' = Append(presented, [status |-> status, symbol |-> getEmoji(status)])
    /\ UNCHANGED << EXERCISES, STUDENTS, allExercises, isExercisesLoading,
                    allStudents, isStudentsLoading, studentProgress,
                    isStudentProgressLoading, filteredExercises, filteredStudents,
                    tableData, tableBefore, rowsComputed, mounted, tbody,
                    csvContent, progressQueries, lastEvent, fetches >>

PresenterNext == \E status \in StatusInputs : Present(status)

PresenterSpec == Init /\ [][PresenterNext]_vars

----------------------------------------------------------------------------
(* Properties *)

ExerciseNamesOf(list) == [i \in 1..Len(list) |-> list[i].exercise_name]
UsernamesOf(list) == [i \in 1..Len(list) |-> list[i].username]

ExercisesReady == allExercises # Null /\ ~isExercisesLoading
StudentsReady == allStudents # Null /\ ~isStudentsLoading

\* C1: with the student list fetched, an empty username allow-list keeps every
\* fetched student, and a non-empty one keeps exactly the fetched students
\* whose username is in it.
C1_StudentFilterEmptyMeansAll ==
    StudentsReady =>
        IF Len(STUDENTS) = 0
        THEN filteredStudents = Get(allStudents)
        ELSE filteredStudents =
                 SelectSeq(Get(allStudents), LAMBDA st : st.username \in Range(STUDENTS))

\* names strictly ascending in the collation order of the names
AscendingNames(names) ==
    \A i, j \in 1..Len(names) : i < j => localeRank[names[i]] < localeRank[names[j]]

\* C2: with the exercise list fetched, an empty exercise allow-list yields every
\* fetched exercise, a non-empty one exactly the fetched exercises whose name is
\* in it, and in both cases the result is sorted ascending by exercise name.
C2_ExerciseFilterSorted ==
    ExercisesReady =>
        LET all == Get(allExercises)
            kept == IF Len(EXERCISES) = 0
                    THEN Range(all)
                    ELSE { e \in Range(all) : e.exercise_name \in Range(EXERCISES) }
        IN  /\ Range(filteredExercises) = kept
            /\ Len(filteredExercises) = Cardinality(kept)
            /\ AscendingNames(ExerciseNamesOf(filteredExercises))

\* C2 witness: a non-empty allow-list, two exercises fetched in descending
\* order, both kept and put in ascending order
C2_Witness ==
    /\ ExercisesReady
    /\ Len(EXERCISES) > 0
    /\ ExerciseNamesOf(Get(allExercises)) = << "loops", "arrays" >>
    /\ ExerciseNamesOf(filteredExercises) = << "arrays", "loops" >>

\* C3: computing the filters leaves the fetched lists as they were delivered:
\* after the step that delivers a list, the hook's data is that list, with the
\* same elements in the same order.
C3_FilterLeavesInputs ==
    [][ /\ \A list \in ExerciseLists :
              ExercisesQuerySuccess(list) => allExercises' = Some(list)
        /\ \A list \in StudentLists :
              StudentsQuerySuccess(list) => allStudents' = Some(list) ]_vars

\* C4: for a student whose submission mapping is available, the resolved latest
\* status of every exercise of the mapping is the status of the last element of
\* its sequence, and the resolver has no entry for any other exercise.
C4_LatestIsLastElement ==
    \A id \in StudentIds :
        (studentProgress[id] # Null /\ ~isStudentProgressLoading[id]) =>
            LET mapping == Get(studentProgress[id])
                latest == latestStatus(studentProgress[id], isStudentProgressLoading[id])
            IN  /\ DOMAIN latest = DOMAIN mapping
                /\ \A name \in DOMAIN mapping :
                       rawStatus(latest, name) =
                           mapping[name][Len(mapping[name])].exerciseProgress.status
                /\ \A name \in ExerciseNames \ DOMAIN mapping :
                       rawStatus(latest, name) = ""

\* C4 witness: a mapping with a two-element sequence for one exercise and no
\* entry for the other, resolved and stored in the student's row
C4_Witness ==
    \E id \in StudentIds :
        /\ studentProgress[id] # Null
        /\ ~isStudentProgressLoading[id]
        /\ DOMAIN Get(studentProgress[id]) = {"loops"}
        /\ Len(Get(studentProgress[id])["loops"]) = 2
        /\ \E r \in Range(rowsComputed) :
               /\ DOMAIN r.statuses = {"arrays", "loops"}
               /\ r.statuses["loops"] = "SUCCESSFUL"
               /\ r.statuses["arrays"] = ""

\* C5: the row collection holds at most one row per username.
C5_OneRowPerUsername ==
    \A i, j \in 1..Len(tableData) :
        i # j => tableData[i].username # tableData[j].username

\* C5 witness: two rows are stored and the latest step upserted a row for a
\* username that already had a different row
C5_Witness ==
    /\ Len(tableData) = 2
    /\ \E r \in Range(rowsComputed), b \in Range(tableBefore) :
           r.username = b.username /\ r # b

\* usernames the latest step upserted a row for
UpsertedUsernames == { r.username : r \in Range(rowsComputed) }

\* C6: an upsert for username u stores the new row as the row of u, and every
\* stored row of another username is still stored, unchanged and in the same
\* relative order.
C6_UpsertKeepsOtherRows ==
    /\ \A b \in Range(tableBefore) :
           b.username \notin UpsertedUsernames => b \in Range(tableData)
    /\ SelectSeq(tableData, LAMBDA r : r.username \notin UpsertedUsernames) =
           SelectSeq(tableBefore, LAMBDA r : r.username \notin UpsertedUsernames)
    /\ \A u \in UpsertedUsernames :
           \E i \in 1..Len(rowsComputed) :
               /\ rowsComputed[i].username = u
               /\ \A j \in (i + 1)..Len(rowsComputed) : rowsComputed[j].username # u
               /\ rowsComputed[i] \in Range(tableData)

\* C6 witness: a row of one student was replaced by a different row while the
\* row of the other student, stored before it, stayed
C6_Witness ==
    /\ Len(tableBefore) = 2
    /\ Len(rowsComputed) = 1
    /\ rowsComputed[1].username = tableBefore[1].username
    /\ rowsComputed[1] # tableBefore[1]
    /\ tableData = << tableBefore[2], rowsComputed[1] >>

\* C7: applying handleRowComputed with the row that was applied last changes
\* nothing: the collection is the one the first application gave, and it holds
\* exactly one row for that username.
C7_UpsertIdempotent ==
    \A r \in Range(rowsComputed) :
        /\ handleRowComputed(handleRowComputed(tableBefore, r), r) =
               handleRowComputed(tableBefore, r)
        /\ (Len(rowsComputed) = 1 /\ tableBefore # << >>
                /\ tableBefore[Len(tableBefore)] = r) => tableData = tableBefore
        /\ Cardinality({ i \in 1..Len(tableData) : tableData[i].username = r.username }) = 1

\* C7 witness: the latest step upserted exactly the row that was upserted last
\* before it, next to another stored row
C7_Witness ==
    /\ Len(rowsComputed) = 1
    /\ Len(tableBefore) = 2
    /\ tableBefore[2] = rowsComputed[1]
    /\ tableData = tableBefore

\* C8: the number of stored rows never exceeds the number of currently
\* filtered students.
C8_RowsBoundedByFilteredStudents ==
    Len(tableData) <= Len(filteredStudents)

----------------------------------------------------------------------------
(* Reading an exported document back: its lines and their fields *)

RECURSIVE splitOn(_, _)
splitOn(pieces, sep) ==
    LET at == { i \in 1..Len(pieces) : pieces[i] = sep }
    IN  IF at = {} THEN << pieces >>
        ELSE LET i == CHOOSE k \in at : \A m \in at : k <= m
             IN  << SubSeq(pieces, 1, i - 1) >>
                 \o splitOn(SubSeq(pieces, i + 1, Len(pieces)), sep)

FieldText(part) == IF part = << >> THEN "" ELSE part[1]

\* the fields of one line
FieldsOf(line) ==
    LET parts == splitOn(line, ",")
    IN  [i \in 1..Len(parts) |-> FieldText(parts[i])]

\* the lines of a document, each as its fields
CsvLines(doc) ==
    LET lines == splitOn(doc, "\n")
    IN  [i \in 1..Len(lines) |-> FieldsOf(lines[i])]

\* the usernames of the data lines of a document, in line order
CsvUsernames(doc) ==
    LET lines == CsvLines(doc)
    IN  [i \in 1..(Len(lines) - 1) |-> lines[i + 1][1]]

\* names that are usernames of filtered students appear in the order of the
\* filtered student list
InRosterOrder(names) ==
    LET roster == UsernamesOf(filteredStudents)
        Pos(u) == CHOOSE k \in 1..Len(roster) : roster[k] = u
    IN  \A i, j \in 1..Len(names) :
            (i < j /\ names[i] \in Range(roster) /\ names[j] \in Range(roster))
                => Pos(names[i]) < Pos(names[j])

\* C9: whatever the order in which the progress fetches completed, the student
\* rows of the rendered table and of the exported document are in the order of
\* the filtered student list.
C9_RowsFollowRosterOrder ==
    /\ InRosterOrder([i \in 1..Len(tbody) |-> tbody[i].username])
    /\ csvContent # Null => InRosterOrder(CsvUsernames(Get(csvContent)))

\* C10: an export with at least one stored row has the header line 'Github
\* Username' followed by the filtered exercise names in the filter's sorted
\* order, then one line per stored row: its username followed by its raw status
\* for each column in header order, empty where the row has none; every line has
\* 1 + (number of filtered exercises) fields.
C10_ExportShape ==
    csvContent # Null =>
        LET lines == CsvLines(Get(csvContent))
            cols == ExerciseNamesOf(filteredExercises)
        IN  /\ Len(tableData) >= 1
            /\ Len(lines) = 1 + Len(tableData)
            /\ lines[1] = << "Github Username" >> \o cols
            /\ AscendingNames(cols)
            /\ \A i \in 1..Len(tableData) :
                   lines[i + 1] =
                       << tableData[i].username >> \o
                       [j \in 1..Len(cols) |->
                           IF cols[j] \in DOMAIN tableData[i].statuses
                           THEN tableData[i].statuses[cols[j]]
                           ELSE ""]
            /\ \A i \in 1..Len(lines) : Len(lines[i]) = 1 + Len(cols)

\* C10 witness: an export of two columns and two rows, one row with a status
\* for one column only
C10_Witness ==
    /\ csvContent # Null
    /\ Len(filteredExercises) = 2
    /\ Len(tableData) = 2
    /\ \E i \in 1..Len(tableData) :
           /\ tableData[i].statuses["arrays"] = ""
           /\ tableData[i].statuses["loops"] = "SUCCESSFUL"

\* C11: a click of the button while the row collection holds no row produces no
\* document, triggers no download and leaves the row collection as it was.
C11_EmptyExportIsNoOp ==
    (lastEvent.kind = "click" /\ Len(tableBefore) = 0) =>
        /\ csvContent = Null
        /\ tableData = tableBefore

\* C11 witness: the button was clicked with students on screen and no row stored
C11_Witness ==
    /\ lastEvent.kind = "click"
    /\ Len(tableBefore) = 0
    /\ Len(tbody) > 0

\* C12: getEmoji maps 'SUCCESSFUL' and 'Completed' to the success symbol,
\* 'UNSUCCESSFUL' and 'Incomplete' to the failure symbol, 'ERROR' and 'Error'
\* to the error symbol and every other input, the empty string, null and unknown
\* strings included, to blank; it gives a result for every input.
C12_PresenterTotal ==
    \A i \in 1..Len(presented) :
        LET status == presented[i].status
            symbol == presented[i].symbol
        IN  /\ symbol \in { "check", "cross", "warning", "" }
            /\ symbol = "check" <=> status \in { Some("SUCCESSFUL"), Some("Completed") }
            /\ symbol = "cross" <=> status \in { Some("UNSUCCESSFUL"), Some("Incomplete") }
            /\ symbol = "warning" <=> status \in { Some("ERROR"), Some("Error") }

\* C12 witness: getEmoji was given an absent status and a label spelling
C12_Witness ==
    /\ Len(presented) = 2
    /\ presented[1] = [status |-> Null, symbol |-> ""]
    /\ presented[2] = [status |-> Some("Completed"), symbol |-> "check"]

\* the row and the <tr> with a blank status for every filtered exercise
BlankRow(username) ==
    [username |-> username,
     statuses |-> [name \in Range(ExerciseNamesOf(filteredExercises)) |-> ""]]

BlankTr(username) ==
    [username |-> username, cells |-> [j \in 1..Len(filteredExercises) |-> ""]]

\* the <tr> of a mounted student as its own hook result alone determines it
OwnTr(student) ==
    renderTr(student, filteredExercises,
             latestStatus(studentProgress[student.id],
                          isStudentProgressLoading[student.id]))

\* C13: when the progress fetch of a student ends without data, the student
\* gets a row (stored and rendered) that is blank for every filtered exercise,
\* and the stored row and the rendered statuses of every other student are what
\* they were: the stored rows are untouched and each other <tr> is determined by
\* that student's own fetch alone.
C13_FailedFetchBlanksOnlyItsRow ==
    lastEvent.kind = "progressError" =>
        LET failed == { st \in Range(mounted) : st.id = lastEvent.id }
            failedNames == { st.username : st \in failed }
        IN  /\ studentProgress[lastEvent.id] = Null
            /\ \A st \in failed :
                   /\ rowsComputed = << BlankRow(st.username) >>
                   /\ BlankRow(st.username) \in Range(tableData)
                   /\ BlankTr(st.username) \in Range(tbody)
            /\ failed = {} => tableData = tableBefore
            /\ SelectSeq(tableData, LAMBDA r : r.username \notin failedNames) =
                   SelectSeq(tableBefore, LAMBDA r : r.username \notin failedNames)
            /\ Len(tbody) = Len(mounted)
            /\ \A i \in 1..Len(mounted) :
                   mounted[i].id # lastEvent.id => tbody[i] = OwnTr(mounted[i])

\* C13 witness: the fetch of one student failed while the other student's row,
\* with a successful status, is stored and rendered next to two blank cells
C13_Witness ==
    /\ lastEvent.kind = "progressError"
    /\ Len(filteredExercises) = 2
    /\ Len(tableData) = 2
    /\ \E r \in Range(tableBefore) : \E n \in DOMAIN r.statuses : r.statuses[n] = "SUCCESSFUL"
    /\ \E i \in 1..Len(tbody) : "check" \in Range(tbody[i].cells)
    /\ \E i \in 1..Len(tbody) : tbody[i].cells = << "", "" >> /\ mounted[i].id = lastEvent.id

\* the students whose progress fetch has not produced a result yet
LoadingUsernames ==
    { st.username : st \in { x \in Student : isStudentProgressLoading[x.id] } }

\* C14: a student whose progress fetch is still loading has no row in the
\* export data: none stored, none passed to the aggregator, none in a document.
C14_NoRowWhileLoading ==
    /\ \A r \in Range(tableData) : r.username \notin LoadingUsernames
    /\ \A r \in Range(rowsComputed) : r.username \notin LoadingUsernames
    /\ csvContent # Null =>
           LET names == CsvUsernames(Get(csvContent))
           IN  \A i \in 1..Len(names) : names[i] \notin LoadingUsernames

\* C14 witness: a document is exported with one row while another student is
\* rendered and still loading
C14_Witness ==
    /\ csvContent # Null
    /\ Len(tableData) = 1
    /\ Len(mounted) = 2
    /\ \E st \in Range(mounted) : isStudentProgressLoading[st.id]

\* C15: while the exercise fetch has no data or is loading the filtered exercise
\* list is empty, and while the student fetch has no data or is loading the
\* filtered student list is empty.
C15_FiltersEmptyUntilFetched ==
    /\ (allExercises = Null \/ isExercisesLoading) => filteredExercises = << >>
    /\ (allStudents = Null \/ isStudentsLoading) => filteredStudents = << >>

\* C15 witness: the students are fetched and filtered, the exercise fetch has
\* ended without data, a non-empty exercise allow-list is configured and the
\* filtered exercise list is empty
C15_Witness ==
    /\ lastEvent.kind = "exercisesError"
    /\ allExercises = Null
    /\ Len(EXERCISES) > 0
    /\ filteredExercises = << >>
    /\ Len(filteredStudents) > 0

\* C16: in an exported document every row, the header and the last data row
\* included, is terminated by a newline: the document ends with a newline and
\* holds as many newlines as it has rows.
C16_RowsNewlineTerminated ==
    csvContent # Null =>
        LET doc == Get(csvContent)
        IN  /\ doc[Len(doc)] = "\n"
            /\ Len(SelectSeq(doc, LAMBDA piece : piece = "\n")) = 1 + Len(tableData)

\* the row of a student resolved from the current hook result over the current
\* filtered exercises
ResolvedRow(student) ==
    computeRow(student, filteredExercises,
               latestStatus(studentProgress[student.id],
                            isStudentProgressLoading[student.id]))

FetchCompleted(student) == ~isStudentProgressLoading[student.id]

\* C17: after every step, a rendered filtered student whose progress fetch has
\* completed has a stored row equal to the student's resolved latest statuses
\* over the current filtered exercises; when the fetch of every filtered student
\* has completed, the collection holds exactly one row for each of them.
C17_CompletedFetchHasResolvedRow ==
    /\ \A st \in Range(mounted) :
           FetchCompleted(st) => ResolvedRow(st) \in Range(tableData)
    /\ (\A st \in Range(mounted) : FetchCompleted(st)) =>
           \A st \in Range(mounted) :
               Cardinality({ i \in 1..Len(tableData) :
                               tableData[i].username = st.username }) = 1

\* C17 witness: the fetch of a filtered student completed with data, the
\* exercise list was fetched again after the row was first computed, and the
\* stored row was recomputed over both exercises
C17_Witness ==
    /\ lastEvent.kind = "exercises"
    /\ mounted = filteredStudents
    /\ Len(filteredExercises) = 2
    /\ \E st \in Range(mounted) :
           /\ FetchCompleted(st)
           /\ studentProgress[st.id] # Null
           /\ \E r \in Range(tableBefore) :
                  r.username = st.username /\ Cardinality(DOMAIN r.statuses) < 2
           /\ \E r \in Range(tableData) :
                  /\ r.username = st.username
                  /\ Cardinality(DOMAIN r.statuses) = 2
                  /\ \E n \in DOMAIN r.statuses : r.statuses[n] # ""

\* C18: no stored row is partially updated: after every step each stored row
\* is either a row that was stored before the step, unchanged, or a row computed
\* in the step, which has an entry for exactly the exercises of the filtered
\* exercise list of that computation.
C18_RowsReplacedWhole ==
    /\ \A r \in Range(rowsComputed) :
           /\ DOMAIN r.statuses = Range(ExerciseNamesOf(filteredExercises))
           /\ r \in Range(tableData)
    /\ \A r \in Range(tableData) :
           r \in Range(tableBefore) \/ r \in Range(rowsComputed)

\* C18 witness: a stored row was replaced by a row over a different exercise
\* list, next to a row of another student that the step left as it was
C18_Witness ==
    /\ Len(tableData) = 2
    /\ \E r \in Range(rowsComputed) : \E b \in Range(tableBefore) :
           /\ b.username = r.username
           /\ DOMAIN b.statuses # DOMAIN r.statuses
           /\ DOMAIN r.statuses # {}
    /\ \E r \in Range(tableData) : r \in Range(tableBefore)

\* the filtered exercises for which a student's fetched mapping holds an empty
\* sequence
EmptyHistoryNames(student) ==
    IF studentProgress[student.id] = Null THEN {}
    ELSE { name \in Range(ExerciseNamesOf(filteredExercises)) \cap
                    DOMAIN Get(studentProgress[student.id]) :
             Get(studentProgress[student.id])[name] = << >> }

\* C19: when the fetched submission mapping of a rendered student maps a
\* filtered exercise to an empty sequence, the row is still computed and stored,
\* and the stored and the rendered status of that exercise are blank.
C19_EmptyHistoryIsNoAttempt ==
    \A i \in 1..Len(mounted) :
        LET st == mounted[i]
        IN  (FetchCompleted(st) /\ EmptyHistoryNames(st) # {}) =>
                /\ \E r \in Range(tableData) :
                       /\ r.username = st.username
                       /\ DOMAIN r.statuses = Range(ExerciseNamesOf(filteredExercises))
                       /\ \A name \in EmptyHistoryNames(st) : r.statuses[name] = ""
                /\ i \in 1..Len(tbody)
                /\ \A j \in 1..Len(filteredExercises) :
                       filteredExercises[j].exercise_name \in EmptyHistoryNames(st) =>
                           tbody[i].cells[j] = ""

\* C19 witness: a student's mapping holds an empty sequence for arrays and a
\* successful last attempt for loops; the row and the <tr> show blank and
\* success
C19_Witness ==
    /\ lastEvent.kind = "progress"
    /\ Len(filteredExercises) = 2
    /\ \E i \in 1..Len(mounted) :
           /\ mounted[i].id = lastEvent.id
           /\ EmptyHistoryNames(mounted[i]) = { "arrays" }
           /\ rowsComputed = << [username |-> mounted[i].username,
                                 statuses |-> [name \in { "arrays", "loops" } |->
                                     IF name = "arrays" THEN "" ELSE "SUCCESSFUL"]] >>
           /\ tbody[i].cells = << "", "check" >>

====
